---- MODULE Spec2Model ----
(***************************************************************************)
(* Model of the HTML embed editing plugin                                  *)
(*   src/packages/ckeditor5-html-embed/src/htmlembedediting.ts             *)
(*   src/packages/ckeditor5-html-embed/src/codemirror.ts                   *)
(*                                                                         *)
(* Four specifications share the variables:                               *)
(*   SpecSweep      the widget button registry and the view 'render' sweep *)
(*   SpecWidget     the rawHtml model elements, their editing-view         *)
(*                  widgets and the source editors                         *)
(*   SpecConfig     the rendering operations under every configuration     *)
(*   SpecRoundTrip  upcast followed by data downcast of one raw markup     *)
(***************************************************************************)
EXTENDS Naturals, Sequences, FiniteSets

(* ------------------------------ bounds --------------------------------- *)
MaxButtons == 3
MaxNodes == 2
MaxLen == 1
MaxChanges == 3
MaxRenders == 2
MaxSanitizeCalls == 2
MaxMarkupLen == 3

(* ------------------------------ strings -------------------------------- *)
\* Raw markup is a sequence of characters. The values typed into a source
\* editor need only differ from each other, so one character does.
Alphabet == {"<"}
Strings == UNION {[1..k -> Alphabet] : k \in 0..MaxLen}
EmptyString == <<>>

\* The markup of the round trip: longer strings, with the characters an
\* escaping or re-parsing step would alter.
MarkupAlphabet == {"<", "&", "\"", "a"}
MarkupStrings == UNION {[1..k -> MarkupAlphabet] : k \in 0..MaxMarkupLen}

Buttons == 1..MaxButtons
Nodes == 1..MaxNodes

VARIABLES
    \* HtmlEmbedEditing._widgetButtonViewReferences: a JS Set, iterated in
    \* insertion order, kept here as a sequence without repetitions
    widgetButtonViewReferences,
    buttonsCreated,     \* how many ButtonView instances exist: 1..buttonsCreated
    buttonElement,      \* per button: "null" | "detached" | "connected"
    destroyCount,       \* per button: calls of ButtonView.destroy()
    pluginState,        \* "constructed" | "initialized"
    showPreviews,       \* config htmlEmbed.showPreviews
    sanitizeHtml,       \* config htmlEmbed.sanitizeHtml: "default" | "custom"
    warnings,           \* logWarning( 'html-embed-provide-sanitize-function' ) calls
    sanitizeCalls,      \* invocations of the configured sanitizeHtml
    model,              \* per node: the rawHtml model element
    view,               \* per node: the DOM of the content wrapper
    selection,          \* model.document.selection.getSelectedElement(): node or 0
    changeCount,        \* editor.model.change() blocks run
    roundTrip,          \* the data pipeline run of SpecRoundTrip
    lastEvent           \* the handler that ran last

registryVars == <<widgetButtonViewReferences, buttonsCreated, buttonElement, destroyCount>>
widgetVars == <<pluginState, showPreviews, sanitizeHtml, warnings, sanitizeCalls,
                model, view, selection, changeCount>>
vars == <<widgetButtonViewReferences, buttonsCreated, buttonElement, destroyCount,
          pluginState, showPreviews, sanitizeHtml, warnings, sanitizeCalls,
          model, view, selection, changeCount, roundTrip, lastEvent>>

Event(op, id) == [op |-> op, id |-> id]

Range(s) == {s[i] : i \in 1..Len(s)}

(* ------------------- the render sweep (lines 93-104) ------------------- *)

\* A mutation of IsInDom: no button counts as attached.
IsInDomNever(b) == FALSE

\* buttonView.element && buttonView.element.isConnected
IsInDom(b) == buttonElement[b] # "null" /\ buttonElement[b] = "connected"

\* widgetButtonViewReferences.delete( buttonView )
SetDelete(s, b) == SelectSeq(s, LAMBDA x : x # b)

\* The body of the 'render' listener: the for-of loop over the set, in
\* insertion order. `rest` are the entries not yet visited, `refs` the set as
\* it stands, `destroyed` the destroy() counters. A button in the DOM ends the
\* whole listener (`return`), leaving the entries after it unvisited.
RECURSIVE renderListener(_, _, _)
renderListener(rest, refs, destroyed) ==
    IF rest = <<>>
    THEN [refs |-> refs, destroyed |-> destroyed]
    ELSE LET buttonView == Head(rest) IN
         IF IsInDom(buttonView)
         THEN [refs |-> refs, destroyed |-> destroyed]
         ELSE renderListener(Tail(rest),
                             SetDelete(refs, buttonView),
                             [destroyed EXCEPT ![buttonView] = @ + 1])

\* editor.editing.view fires 'render': the listener runs to completion.
FireViewRender ==
    LET r == renderListener(widgetButtonViewReferences,
                            widgetButtonViewReferences, destroyCount) IN
    /\ widgetButtonViewReferences' = r.refs
    /\ destroyCount' = r.destroyed

(* ----------------------- initial states -------------------------------- *)

InitRegistry ==
    /\ widgetButtonViewReferences = <<>>
    /\ buttonsCreated = 0
    /\ buttonElement = [b \in Buttons |-> "null"]
    /\ destroyCount = [b \in Buttons |-> 0]

NoElement == [inDoc |-> FALSE, hasValue |-> FALSE, value |-> EmptyString]
NoDom == [rendered |-> FALSE, content |-> "none", instances |-> 0, doc |-> EmptyString]

\* The constructor (lines 43-65) defines the htmlEmbed configuration with its
\* defaults; what the integrator configured overrides them.
InitWidget(userShowPreviews, userSanitizeHtml) ==
    /\ pluginState = "constructed"
    /\ showPreviews = userShowPreviews
    /\ sanitizeHtml = userSanitizeHtml
    /\ warnings = 0
    /\ sanitizeCalls = 0
    /\ model = [n \in Nodes |-> NoElement]
    /\ view = [n \in Nodes |-> NoDom]
    /\ selection = 0
    /\ changeCount = 0

IdleRoundTrip == [phase |-> "idle", rawContent |-> EmptyString,
                  hasValue |-> FALSE, value |-> EmptyString, innerHTML |-> EmptyString]

\* The state after construction with the default configuration
\* (showPreviews: false, the default sanitizeHtml).
Init ==
    /\ InitRegistry
    /\ InitWidget(FALSE, "default")
    /\ roundTrip = IdleRoundTrip
    /\ lastEvent = Event("construct", 0)

\* The state after construction under any configuration of the two options.
InitConfigured ==
    /\ InitRegistry
    /\ \E sp \in BOOLEAN, sh \in {"default", "custom"} : InitWidget(sp, sh)
    /\ roundTrip = IdleRoundTrip
    /\ lastEvent = Event("construct", 0)

(* ------------------- SpecSweep: registry operations -------------------- *)

\* A ButtonView is created for a widget and added to the set; its element is
\* not rendered yet, rendered but not in the document, or in the document.
AddButton(el) ==
    /\ buttonsCreated < MaxButtons
    /\ buttonsCreated' = buttonsCreated + 1
    /\ widgetButtonViewReferences' = Append(widgetButtonViewReferences, buttonsCreated + 1)
    /\ buttonElement' = [buttonElement EXCEPT ![buttonsCreated + 1] = el]
    /\ lastEvent' = Event("add", buttonsCreated + 1)
    /\ UNCHANGED <<destroyCount, widgetVars, roundTrip>>

\* The button's element is put into the document.
AttachButton(b) ==
    /\ b <= buttonsCreated
    /\ buttonElement[b] # "connected"
    /\ buttonElement' = [buttonElement EXCEPT ![b] = "connected"]
    /\ lastEvent' = Event("attach", b)
    /\ UNCHANGED <<widgetButtonViewReferences, buttonsCreated, destroyCount,
                   widgetVars, roundTrip>>

\* The button's element leaves the document (its widget was re-converted).
DetachButton(b) ==
    /\ b <= buttonsCreated
    /\ buttonElement[b] = "connected"
    /\ buttonElement' = [buttonElement EXCEPT ![b] = "detached"]
    /\ lastEvent' = Event("detach", b)
    /\ UNCHANGED <<widgetButtonViewReferences, buttonsCreated, destroyCount,
                   widgetVars, roundTrip>>

\* The editing view renders and the plugin's 'render' listener runs.
ViewRender ==
    /\ FireViewRender
    /\ lastEvent' = Event("render", 0)
    /\ UNCHANGED <<buttonsCreated, buttonElement, widgetVars, roundTrip>>

NextSweep ==
    \/ \E el \in {"null", "detached", "connected"} : AddButton(el)
    \/ \E b \in Buttons : AttachButton(b)
    \/ \E b \in Buttons : DetachButton(b)
    \/ ViewRender

SpecSweep == Init /\ [][NextSweep]_vars

(* --------------- the rawHtml element and its content wrapper ------------ *)

\* upcast (lines 113-125): writer.createElement( 'rawHtml', { value:
\* viewElement.getCustomProperty( '$rawContent' ) } ). A view element without
\* the custom property yields an element whose value is undefined.
upcastModel(hasRawContent, rawContent) ==
    [inDoc |-> TRUE,
     hasValue |-> hasRawContent,
     value |-> IF hasRawContent THEN rawContent ELSE EmptyString]

\* getRawHtmlValue (line 154): modelElement.getAttribute( 'value' ) || ''
getRawHtmlValue(modelElement) ==
    IF modelElement.hasValue /\ modelElement.value # EmptyString
    THEN modelElement.value
    ELSE EmptyString

\* A mutation of renderContent: the editor is created with an empty document.
renderContentBlank(modelElement, domElement) ==
    [rendered |-> TRUE, content |-> "editor",
     instances |-> domElement.instances + 1, doc |-> EmptyString]

\* renderContent (lines 188-212), called from the raw element's render
\* callback (line 155): the wrapper is emptied and a new source editor is
\* created in it by init( domTextarea, getRawHtmlValue(), ... ), whose
\* document is the doc argument (codemirror.ts lines 86-104). htmlEmbed.
\* showPreviews is not consulted. `instances` counts the EditorView objects
\* created for the node; the current one is the last.
renderContent(modelElement, domElement) ==
    [rendered |-> TRUE, content |-> "editor",
     instances |-> domElement.instances + 1, doc |-> getRawHtmlValue(modelElement)]

\* A mutation of setRawHtmlValue: the content is dropped.
setRawHtmlValueDropped(n, content, domElement) ==
    /\ view' = [view EXCEPT ![n] = domElement]
    /\ UNCHANGED <<model, changeCount, selection, registryVars>>

\* A mutation of setRawHtmlValue: the disabled path of lines 150-152,
\* editor.model.change( writer => writer.setAttribute( ... ) ), which
\* re-converts the element and so renders the wrapper anew.
setRawHtmlValueByWriter(n, content, domElement) ==
    LET element == [model[n] EXCEPT !.hasValue = TRUE, !.value = content] IN
    /\ model' = [model EXCEPT ![n] = element]
    /\ view' = [view EXCEPT ![n] = renderContent(element, domElement)]
    /\ changeCount' = changeCount + 1
    /\ FireViewRender
    /\ UNCHANGED <<selection, buttonsCreated, buttonElement>>

\* setRawHtmlValue (lines 145-153): modelElement._setAttribute( 'value',
\* content ), and nothing else. `domElement` is the wrapper as the source
\* editor's own update left it; the function does not touch it.
setRawHtmlValue(n, content, domElement) ==
    /\ model' = [model EXCEPT ![n] = [@ EXCEPT !.hasValue = TRUE, !.value = content]]
    /\ view' = [view EXCEPT ![n] = domElement]
    /\ UNCHANGED <<changeCount, selection, registryVars>>

\* A mutation of mousedownListener: the selection is left where it was.
mousedownListenerIdle(n) ==
    UNCHANGED <<selection, changeCount, registryVars>>

\* The capture-phase mousedown listener of the wrapper (lines 160-168).
mousedownListener(n) ==
    IF selection # n
    THEN /\ selection' = n
         /\ changeCount' = changeCount + 1
         /\ FireViewRender
         /\ UNCHANGED <<buttonsCreated, buttonElement>>
    ELSE UNCHANGED <<selection, changeCount, registryVars>>

\* A mutation of defaultSanitizeHtml: the warning is logged once only.
defaultSanitizeHtmlOnce ==
    warnings' = IF warnings = 0 THEN 1 ELSE warnings

\* The default sanitizeHtml (lines 48-63): logs the warning on every call
\* (and returns { html: rawHtml, hasChanged: false }, which nothing keeps).
defaultSanitizeHtml ==
    warnings' = warnings + 1

(* ------------------- SpecWidget: plugin operations ---------------------- *)

NodesInDoc == {n \in Nodes : model[n].inDoc}

\* HtmlEmbedEditing.init (lines 70-82): schema, command, conversion.
PluginInit ==
    /\ pluginState = "constructed"
    /\ pluginState' = "initialized"
    /\ lastEvent' = Event("init", 0)
    /\ UNCHANGED <<showPreviews, sanitizeHtml, warnings, sanitizeCalls, model, view,
                   selection, changeCount, registryVars, roundTrip>>

\* Content holding a div.raw-html-embed is inserted (pasted or loaded): the
\* element is upcast, inserted as the next node, and the editing downcast
\* renders its wrapper. Where the host leaves the selection is its choice.
UpcastInsert(hasRawContent, rawContent, sel) ==
    LET n == Cardinality(NodesInDoc) + 1
        element == upcastModel(hasRawContent, rawContent) IN
    /\ pluginState = "initialized"
    /\ n \in Nodes
    /\ changeCount < MaxChanges
    /\ sel \in {selection, n}
    /\ model' = [model EXCEPT ![n] = element]
    /\ view' = [view EXCEPT ![n] = renderContent(element, view[n])]
    /\ selection' = sel
    /\ changeCount' = changeCount + 1
    /\ FireViewRender
    /\ lastEvent' = Event("upcast", n)
    /\ UNCHANGED <<pluginState, showPreviews, sanitizeHtml, warnings, sanitizeCalls,
                   buttonsCreated, buttonElement, roundTrip>>

\* The htmlEmbed command: updates the value of the selected rawHtml element
\* through the writer, or inserts a new element with the value and selects it.
\* Either way the element is (re-)converted and its wrapper rendered.
HtmlEmbedCommand(value) ==
    LET n == IF selection \in NodesInDoc THEN selection ELSE Cardinality(NodesInDoc) + 1
        element == [inDoc |-> TRUE, hasValue |-> TRUE, value |-> value] IN
    /\ pluginState = "initialized"
    /\ n \in Nodes
    /\ changeCount < MaxChanges
    /\ view[n].instances < MaxRenders
    /\ model' = [model EXCEPT ![n] = element]
    /\ view' = [view EXCEPT ![n] = renderContent(element, view[n])]
    /\ selection' = n
    /\ changeCount' = changeCount + 1
    /\ FireViewRender
    /\ lastEvent' = Event("command", n)
    /\ UNCHANGED <<pluginState, showPreviews, sanitizeHtml, warnings, sanitizeCalls,
                   buttonsCreated, buttonElement, roundTrip>>

\* The host converts the element anew (editing.reconvertItem, undo, ...): the
\* view callback of lines 138-185 runs again and the new wrapper is rendered.
Reconvert(n) ==
    /\ n \in NodesInDoc
    /\ view[n].instances < MaxRenders
    /\ view' = [view EXCEPT ![n] = renderContent(model[n], view[n])]
    /\ FireViewRender
    /\ lastEvent' = Event("reconvert", n)
    /\ UNCHANGED <<pluginState, showPreviews, sanitizeHtml, warnings, sanitizeCalls,
                   model, selection, changeCount, buttonsCreated, buttonElement, roundTrip>>

\* The source editor of node n updates (the user typed, or moved the cursor
\* when content is the document as it was): the update listener of
\* codemirror.ts lines 97-101 reads update.state.doc.toString() and hands it
\* to contentUpdate, which is setRawHtmlValue.
EditorUpdate(n, content) ==
    /\ n \in NodesInDoc
    /\ view[n].content = "editor"
    /\ setRawHtmlValue(n, content, [view[n] EXCEPT !.doc = content])
    /\ lastEvent' = Event("update", n)
    /\ UNCHANGED <<pluginState, showPreviews, sanitizeHtml, warnings, sanitizeCalls,
                   roundTrip>>

\* The user presses a mouse button inside the wrapper of node n.
Mousedown(n) ==
    /\ n \in NodesInDoc
    /\ view[n].rendered
    /\ selection = n \/ changeCount < MaxChanges
    /\ mousedownListener(n)
    /\ lastEvent' = Event("mousedown", n)
    /\ UNCHANGED <<pluginState, showPreviews, sanitizeHtml, warnings, sanitizeCalls,
                   model, view, roundTrip>>

\* The host selects something that is no rawHtml element (the caret moves
\* into a paragraph).
SelectElsewhere ==
    /\ pluginState = "initialized"
    /\ selection # 0
    /\ changeCount < MaxChanges
    /\ selection' = 0
    /\ changeCount' = changeCount + 1
    /\ FireViewRender
    /\ lastEvent' = Event("select", 0)
    /\ UNCHANGED <<pluginState, showPreviews, sanitizeHtml, warnings, sanitizeCalls,
                   model, view, buttonsCreated, buttonElement, roundTrip>>

\* A consumer of the configuration calls htmlEmbed.sanitizeHtml. The plugin
\* itself does not: line 91, which read the configuration, is disabled.
CallSanitizeHtml ==
    /\ sanitizeCalls < MaxSanitizeCalls
    /\ sanitizeCalls' = sanitizeCalls + 1
    /\ IF sanitizeHtml = "default" THEN defaultSanitizeHtml ELSE UNCHANGED warnings
    /\ lastEvent' = Event("sanitize", 0)
    /\ UNCHANGED <<pluginState, showPreviews, sanitizeHtml, model, view, selection,
                   changeCount, registryVars, roundTrip>>

NextWidget ==
    \/ PluginInit
    \/ \E hasRawContent \in BOOLEAN, rawContent \in Strings, sel \in Nodes \cup {0} :
           UpcastInsert(hasRawContent, rawContent, sel)
    \/ \E value \in Strings : HtmlEmbedCommand(value)
    \/ \E n \in Nodes : Reconvert(n)
    \/ \E n \in Nodes, content \in Strings : EditorUpdate(n, content)
    \/ \E n \in Nodes : Mousedown(n)
    \/ SelectElsewhere

\* The plugin under its default configuration.
SpecWidget == Init /\ [][NextWidget]_vars

\* The plugin under every configuration of htmlEmbed, with the operations that
\* render wrappers and a consumer that calls the sanitize function.
NextConfig ==
    \/ PluginInit
    \/ \E hasRawContent \in BOOLEAN, rawContent \in Strings, sel \in Nodes \cup {0} :
           UpcastInsert(hasRawContent, rawContent, sel)
    \/ \E value \in Strings : HtmlEmbedCommand(value)
    \/ \E n \in Nodes : Reconvert(n)
    \/ CallSanitizeHtml

SpecConfig == InitConfigured /\ [][NextConfig]_vars

(* ------------- SpecRoundTrip: upcast, then data downcast ---------------- *)

\* What the DOM serialises for a text node: markup characters escaped.
RECURSIVE EscapeText(_)
EscapeText(s) ==
    IF s = <<>> THEN <<>>
    ELSE (IF Head(s) = "<" THEN <<"&", "l", "t", ";">>
          ELSE IF Head(s) = "&" THEN <<"&", "a", "m", "p", ";">>
          ELSE <<Head(s)>>) \o EscapeText(Tail(s))

\* A mutation of dataDowncastInnerHTML: the value is set as the element's
\* text, so the markup comes out escaped.
dataDowncastTextContent(modelElement) ==
    EscapeText(IF modelElement.hasValue THEN modelElement.value ELSE EmptyString)

\* dataDowncast (lines 127-134): the raw element's render callback assigns
\* domElement.innerHTML = modelElement.getAttribute( 'value' ) || ''. The
\* model keeps the markup assigned; how the browser parses it is not the
\* plugin's doing.
dataDowncastInnerHTML(modelElement) ==
    IF modelElement.hasValue /\ modelElement.value # EmptyString
    THEN modelElement.value
    ELSE EmptyString

\* A div.raw-html-embed with some raw content is about to be loaded.
InitRoundTrip ==
    /\ InitRegistry
    /\ InitWidget(FALSE, "default")
    /\ \E m \in MarkupStrings :
           roundTrip = [IdleRoundTrip EXCEPT !.phase = "view", !.rawContent = m]
    /\ lastEvent = Event("construct", 0)

\* The view element is upcast to a rawHtml element (lines 113-125).
Upcast ==
    LET element == upcastModel(TRUE, roundTrip.rawContent) IN
    /\ roundTrip.phase = "view"
    /\ roundTrip' = [roundTrip EXCEPT !.phase = "model",
                                      !.hasValue = element.hasValue,
                                      !.value = element.value]
    /\ lastEvent' = Event("upcast", 0)
    /\ UNCHANGED <<registryVars, widgetVars>>

\* The rawHtml element is downcast to data (lines 127-134).
DataDowncast ==
    LET element == [inDoc |-> TRUE, hasValue |-> roundTrip.hasValue,
                    value |-> roundTrip.value] IN
    /\ roundTrip.phase = "model"
    /\ roundTrip' = [roundTrip EXCEPT !.phase = "data",
                                      !.innerHTML = dataDowncastInnerHTML(element)]
    /\ lastEvent' = Event("dataDowncast", 0)
    /\ UNCHANGED <<registryVars, widgetVars>>

NextRoundTrip ==
    \/ Upcast
    \/ DataDowncast

SpecRoundTrip == InitRoundTrip /\ [][NextRoundTrip]_vars

(* ----------------------- claim on the round trip ------------------------ *)

C4_EditorStartsWithValue ==
    [][\A n \in Nodes :
          view'[n].instances # view[n].instances =>
              view'[n].doc = IF model'[n].hasValue THEN model'[n].value
                                                   ELSE EmptyString]_vars

\* A node was edited in its source editor and then rendered again: the new
\* editor holds the edited, non-empty value.
C4_Witness ==
    /\ lastEvent.op = "reconvert"
    /\ view[lastEvent.id].instances >= 2
    /\ model[lastEvent.id].hasValue
    /\ model[lastEvent.id].value # EmptyString
    /\ view[lastEvent.id].doc = model[lastEvent.id].value

\* C5: after a mousedown inside the wrapper of a node, the selected element
\* of the model selection is that node.
C5_MousedownSelectsWidget ==
    lastEvent.op = "mousedown" => selection = lastEvent.id

\* A mousedown in the wrapper of the first node, with a second node in the
\* document, has made the first node the selected element.
C5_Witness ==
    /\ lastEvent = Event("mousedown", 1)
    /\ model[2].inDoc
    /\ selection = 1
    /\ changeCount >= 3

\* C6: after a change notification of a node's source editor, the node's
\* value attribute is the editor's document.
C6_ValueFollowsEditor ==
    lastEvent.op = "update" =>
        /\ model[lastEvent.id].hasValue
        /\ model[lastEvent.id].value = view[lastEvent.id].doc

\* The editor of a node reported a non-empty document and the attribute
\* holds it.
C6_Witness ==
    /\ lastEvent.op = "update"
    /\ view[lastEvent.id].doc # EmptyString
    /\ model[lastEvent.id].value = view[lastEvent.id].doc

\* C7: the wrapper rendered for a node holds a preview when htmlEmbed.
\* showPreviews is true and the source editor otherwise.
C7_PreviewWhenConfigured ==
    \A n \in Nodes :
        view[n].rendered =>
            view[n].content = IF showPreviews THEN "preview" ELSE "editor"

\* C8: no source editor instance exists for a node until the user enters edit
\* mode on it; rendering the node's wrapper does not create one. The plugin
\* has no operation that enters edit mode (RawHtmlApi.makeEditable, lines
\* 216-220, is declared and never implemented), so no node is ever in edit
\* mode and the claim allows no source editor at all.
C8_NoEditorBeforeEditMode ==
    \A n \in Nodes : view[n].rendered => view[n].instances = 0

\* C9: a content update from the source editor changes the node's value
\* attribute and nothing else: no model change block is run, the selection
\* stays, no wrapper is rendered anew, the source editor instance of every
\* node stays the one it was, and the other elements keep their attributes.
C9_UpdateOnlySetsValue ==
    [][lastEvent'.op = "update" =>
          /\ changeCount' = changeCount
          /\ selection' = selection
          /\ \A n \in Nodes :
                 /\ view'[n].instances = view[n].instances
                 /\ view'[n].rendered = view[n].rendered
                 /\ view'[n].content = view[n].content
                 /\ model'[n].inDoc = model[n].inDoc
                 /\ n # lastEvent'.id => model'[n] = model[n] /\ view'[n] = view[n]
          /\ model'[lastEvent'.id].value = view'[lastEvent'.id].doc]_vars

\* An update has changed the value of a node whose editor is still the first
\* one created for it, with no model change since the node was inserted.
C9_Witness ==
    /\ lastEvent.op = "update"
    /\ view[lastEvent.id].instances = 1
    /\ changeCount = 1
    /\ model[lastEvent.id].value # EmptyString

(* ------------------------- claims on the sweep -------------------------- *)

\* C1: when the sweep handler of a render event has finished, every button
\* whose element is absent or not connected to the document has had destroy()
\* called on it exactly once and is no longer in the registry.
C1_SweepDestroysEveryDetachedButton ==
    lastEvent.op = "render" =>
        \A b \in 1..buttonsCreated :
            buttonElement[b] # "connected" =>
                /\ b \notin Range(widgetButtonViewReferences)
                /\ destroyCount[b] = 1

\* C10: a button whose element is connected to the document when a sweep runs
\* is still in the registry after that sweep, and the sweep has not called
\* destroy() on it.
C10_SweepKeepsAttachedButtons ==
    [][lastEvent'.op = "render" =>
          \A b \in Range(widgetButtonViewReferences) :
              buttonElement[b] = "connected" =>
                  /\ b \in Range(widgetButtonViewReferences')
                  /\ destroyCount'[b] = destroyCount[b]]_vars

\* A sweep has run that destroyed a detached button and stopped at an
\* attached one, which is still registered and not destroyed.
C10_Witness ==
    /\ lastEvent.op = "render"
    /\ \E b \in Range(widgetButtonViewReferences) :
           buttonElement[b] = "connected" /\ destroyCount[b] = 0
    /\ \E b \in 1..buttonsCreated :
           b \notin Range(widgetButtonViewReferences) /\ destroyCount[b] = 1

====
